---- MODULE Spec2Model ----
(***************************************************************************)
(* Order processing pipeline of CEOBitch: the file-backed OrderStore with  *)
(* its lock file and leases, the polling OrderProcessor, and the owner's   *)
(* approval route, as one state machine.  Each worker is an OrderProcessor *)
(* process; "http" is the owner API handling one approval request.         *)
(* Every await of the source that gives other processes a turn is a step.  *)
(* "engine" is the decision engine (ApprovalWorkflow with its quality      *)
(* evaluator and risk assessor): its configuration, its approval records,  *)
(* the request it is given and what its calls returned.  Each "client" is  *)
(* a process inside one operation of the OrderStore, step by step.         *)
(***************************************************************************)
EXTENDS Integers, Sequences, FiniteSets, TLC

\* ---------------------------------------------------------------- bounds
Workers == {"w1", "w2"}
OrderIds == <<"o1", "o2">>
OwnerOrderIds == <<"o1">>
Clients == {"c1", "c2"}
TimeStep == 30000
MaxTime == 60000
MaxAttemptCount == 2
MaxRetryTime == 360000
MaxRetryAttempts == 11
MaxErrorLogs == 4
MaxReviews == 3
MaxFailures == 1
MaxCalls == 2
MaxOverrides == 2

\* ------------------------------------------------------- program constants
leaseMs == 30000
retryBaseMs == 1500
retryMaxMs == 30000
timeoutMs == 5000
maxAttempts == 10

undefined == 0 - 1
none == "none"
Decisions == {"approved", "rejected", "requires_improvement"}
Descriptions == {"write code"}
ExecutorError == "executor error"
LockTimeoutError == "Order store lock timeout"

VARIABLES clock, orders, reports, lockHolder, proc, http, engine, client

vars == <<clock, orders, reports, lockHolder, proc, http, engine, client>>

Min(a, b) == IF a <= b THEN a ELSE b
Max(a, b) == IF a >= b THEN a ELSE b

Range(s) == {s[i] : i \in 1..Len(s)}

\* ------------------------------------------------------------ order store
NoOrder ==
  [id |-> none, description |-> none, status |-> none, updatedAt |-> undefined,
   attemptCount |-> 0, lastError |-> none, nextAttemptAt |-> undefined,
   lockedBy |-> none, lockedUntil |-> undefined]

newOrder(id, description, t) ==
  [id |-> id, description |-> description, status |-> "pending",
   updatedAt |-> t, attemptCount |-> 0, lastError |-> none,
   nextAttemptAt |-> t, lockedBy |-> none, lockedUntil |-> undefined]

isLeaseExpiredStrict(order, t) ==
  \/ order.lockedUntil = undefined
  \/ order.lockedUntil = 0
  \/ order.lockedUntil < t

isLeaseExpired(order, t) ==
  \/ order.lockedUntil = undefined
  \/ order.lockedUntil = 0
  \/ order.lockedUntil <= t

nextAttemptOrZero(order) ==
  IF order.nextAttemptAt = undefined THEN 0 ELSE order.nextAttemptAt

isDueWhileInProgress(order, t) ==
  /\ order.status # "completed"
  /\ nextAttemptOrZero(order) <= t
  /\ isLeaseExpired(order, t)

isDue(order, t) ==
  /\ order.status # "completed"
  /\ order.status # "in_progress"
  /\ nextAttemptOrZero(order) <= t
  /\ isLeaseExpired(order, t)

getDueOrders(data, t) ==
  SelectSeq(OrderIds, LAMBDA id : id \in DOMAIN data /\ isDue(data[id], t))

canAcquireNoLeaseCheck(data, id, t) ==
  /\ id \in DOMAIN data
  /\ data[id].status # "completed"

canAcquireCompleted(data, id, t) ==
  /\ id \in DOMAIN data
  /\ isLeaseExpired(data[id], t)

canAcquire(data, id, t) ==
  /\ id \in DOMAIN data
  /\ isLeaseExpired(data[id], t)
  /\ data[id].status # "completed"

leasedOrderFresh(order, holder, lease, t, date) ==
  [order EXCEPT !.status = "in_progress", !.lockedBy = holder,
                !.lockedUntil = t + lease, !.updatedAt = date,
                !.lastError = none, !.nextAttemptAt = undefined]

leasedOrder(order, holder, lease, t, date) ==
  [order EXCEPT !.status = "in_progress", !.lockedBy = holder,
                !.lockedUntil = t + lease, !.updatedAt = date]

releasedOrderPending(order, date) ==
  [order EXCEPT !.status = "pending", !.lockedBy = none,
                !.lockedUntil = undefined, !.updatedAt = date]

releasedOrder(order, date) ==
  [order EXCEPT !.lockedBy = none, !.lockedUntil = undefined,
                !.updatedAt = date]

updateOrder(data, order) ==
  [id \in DOMAIN data \cup {order.id} |->
     IF id = order.id THEN order ELSE data[id]]

setReport(data, id, report) ==
  [k \in DOMAIN data \cup {id} |-> IF k = id THEN report ELSE data[k]]

\* -------------------------------------------------------- order processor
backoffMsOffByOne(attemptCount) ==
  Min(retryBaseMs * 2 ^ Max(0, attemptCount), retryMaxMs)

backoffMs(attemptCount) ==
  Min(retryBaseMs * 2 ^ Max(0, attemptCount - 1), retryMaxMs)

startedOrder(order, date) ==
  [order EXCEPT !.attemptCount = order.attemptCount + 1, !.lastError = none,
                !.updatedAt = date]

completedOrder(started, date) ==
  [started EXCEPT !.status = "completed", !.lockedBy = none,
                  !.lockedUntil = undefined, !.nextAttemptAt = undefined,
                  !.updatedAt = date]

failedOrderInProgress(started, message, t) ==
  [started EXCEPT !.lastError = message,
                  !.nextAttemptAt = t + backoffMs(started.attemptCount),
                  !.lockedBy = none, !.lockedUntil = undefined,
                  !.updatedAt = t]

failedOrder(started, message, t) ==
  [started EXCEPT !.status = "failed", !.lastError = message,
                  !.nextAttemptAt = t + backoffMs(started.attemptCount),
                  !.lockedBy = none, !.lockedUntil = undefined,
                  !.updatedAt = t]

\* ------------------------------------------- decision engine: the inputs
\* An output is undefined, null or an object; value holds, for each key of
\* an object, the typeof and the text of its value, chars is the length of
\* JSON.stringify(output).
property(key, type, text) == [key |-> key, type |-> type, text |-> text]

OutUndefined == [kind |-> "undefined", value |-> {}, chars |-> 0]

OutNull == [kind |-> "null", value |-> {}, chars |-> 4]

OutEmpty == [kind |-> "object", value |-> {}, chars |-> 2]

OutOk ==
  [kind |-> "object", value |-> {property("result", "string", "ok")},
   chars |-> 15]

OutSecret ==
  [kind |-> "object",
   value |-> {property("result", "number", "5"),
              property("a", "string", "password")},
   chars |-> 1000001]

Outputs == {OutUndefined, OutNull, OutEmpty, OutOk, OutSecret}

ExecutionTimes == {1000, 400000}

\* errorLogs is the number of log lines of level error
Reports ==
  [id : {"report-1"}, agentId : {"agent-1"}, output : Outputs,
   errorLogs : 0..MaxErrorLogs, executionTimeMs : ExecutionTimes]

\* report.id is `exec-${order.id}`
execId(id) ==
  CASE id = "o1" -> "exec-o1" [] id = "o2" -> "exec-o2" [] OTHER -> "exec-"

\* the report of the staging execution of an order
executeInStaging(id) ==
  [id |-> execId(id), agentId |-> "agent-1",
   output |-> [kind |-> "object",
               value |-> {property("success", "boolean", "true"),
                          property("orderId", "string", id),
                          property("files", "object", "")},
               chars |-> 50],
   errorLogs |-> 0, executionTimeMs |-> 1000]

\* the OrderExecutionResult that processOrder stores for an order
executionResult(approved, id) ==
  [approved |-> approved, report |-> executeInStaging(id),
   approvalRecordId |-> undefined]

absent == "absent"

\* an optional list of the criteria: left out, or given with its entries
leftOut == [defined |-> FALSE, entries |-> <<>>]

given(entries) == [defined |-> TRUE, entries |-> entries]

FormatRequirements ==
  {leftOut, given(<<>>),
   given(<<[key |-> "result", requirement |-> "string"]>>),
   given(<<[key |-> "result", requirement |-> "string"],
           [key |-> "b", requirement |-> "number"]>>)}

ContentRequirements == {leftOut, given(<<"OK">>), given(<<"ok", "done">>)}

QualityCriterias ==
  [minScore : {70, 90},
   requiredFields : {<<>>, <<"result">>, <<"a", "b", "c">>},
   formatRequirements : FormatRequirements,
   contentRequirements : ContentRequirements]

riskCheck(name, checkType, threshold) ==
  [name |-> name, checkType |-> checkType, threshold |-> threshold,
   description |-> name]

\* thresholds and risk values are in tenths
RiskPolicies ==
  {<<>>,
   <<riskCheck("Error_logs", "pattern", 3)>>,
   <<riskCheck("unexpected_output", "heuristic", 0),
     riskCheck("sensitive_data", "pattern", 0)>>,
   <<riskCheck("many_errors", "heuristic", 3),
     riskCheck("timeout", "pattern", 10)>>,
   <<riskCheck("long_execution", "heuristic", 5),
     riskCheck("many_errors", "pattern", 0),
     riskCheck("anything", "custom", 0)>>}

HumanDecisions == Decisions \cup {absent}

Requests ==
  [report : Reports, qualityCriteria : QualityCriterias,
   riskChecks : RiskPolicies, humanDecision : HumanDecisions]

\* the requests of a sequence of reviews
ReviewRequests ==
  [report : [id : {"report-1"}, agentId : {"agent-1"},
             output : {OutOk, OutNull}, errorLogs : {0},
             executionTimeMs : {1000}],
   qualityCriteria : [minScore : {70, 95}, requiredFields : {<<"result">>},
                      formatRequirements : {leftOut},
                      contentRequirements : {leftOut}],
   riskChecks : {<<>>, <<riskCheck("unexpected_output", "heuristic", 0)>>},
   humanDecision : {absent, "rejected"}]

\* String.prototype.toLowerCase on the strings of the model
toLowerCase(s) ==
  CASE s = "OK" -> "ok"
    [] s = "Error_logs" -> "error_logs"
    [] s = "Error Check" -> "error check"
    [] OTHER -> s

\* the strings of the model that occur in a string: a.includes(w) is
\* w \in words(a)
words(s) ==
  CASE s = "error_logs" -> {"error_logs", "error", "logs"}
    [] s = "error check" -> {"error check", "error", "check"}
    [] s = "build a landing page" -> {"build a landing page", "landing page"}
    [] s = "many_errors" -> {"many_errors", "many", "error", "errors"}
    [] s = "sensitive_data" -> {"sensitive_data", "sensitive", "data"}
    [] OTHER -> {s}

\* the words of JSON.stringify(output).toLowerCase(): keys and value texts
stringify(output) ==
  IF output.kind = "null" THEN {"null"}
  ELSE UNION {words(toLowerCase(p.key)) \cup words(toLowerCase(p.text)) :
                p \in output.value}

\* ------------------------------------------------------ quality evaluator
extractFields(output) ==
  IF output.kind = "object" THEN {p.key : p \in output.value} ELSE {}

typeMatches(expectedType, type) ==
  \/ expectedType \notin {"string", "number", "boolean", "object", "array"}
  \/ expectedType = type

\* the number of errors checkFormat returns
checkFormat(output, requirements) ==
  IF output.kind # "object"
  THEN 1
  ELSE Len(SelectSeq(requirements, LAMBDA r :
         \/ r.key \notin extractFields(output)
         \/ \E p \in output.value :
              p.key = r.key /\ ~ typeMatches(r.requirement, p.type)))

\* the number of errors checkContent returns
checkContent(output, requirements) ==
  Len(SelectSeq(requirements, LAMBDA r :
        toLowerCase(r) \notin stringify(output)))

clamp(score) == Max(0, Min(100, score))

evaluateQuality(report, criteria) ==
  LET missingFields ==
        SelectSeq(criteria.requiredFields,
                  LAMBDA f : f \notin extractFields(report.output))
      formatErrors ==
        IF criteria.formatRequirements.defined
        THEN checkFormat(report.output, criteria.formatRequirements.entries)
        ELSE 0
      contentErrors ==
        IF criteria.contentRequirements.defined
        THEN checkContent(report.output,
                          criteria.contentRequirements.entries)
        ELSE 0
      score == clamp(100 - 10 * Len(missingFields) - 5 * formatErrors
                     - 5 * contentErrors - 15 * report.errorLogs)
      meetsCriteria == score >= criteria.minScore
  IN [threw |-> criteria.contentRequirements.defined
                /\ report.output.kind = "undefined",
      score |-> score,
      meetsCriteria |-> meetsCriteria,
      missingFields |-> missingFields,
      feedback |-> Len(missingFields) + formatErrors + contentErrors
                   + (IF report.errorLogs > 0 THEN 1 ELSE 0)
                   + (IF meetsCriteria THEN 0 ELSE 1)]

\* --------------------------------------------------------- risk assessor
\* config.riskThresholds, in tenths
riskThresholds == [low |-> 3, medium |-> 5, high |-> 7, critical |-> 9]

sensitivePatterns == {"password", "api_key", "secret", "token", "credential"}

hasErrorLog(report) == report.errorLogs > 0

checkPattern(report, check) ==
  LET checkNameLower == words(toLowerCase(check.name)) IN
    IF "error" \in checkNameLower \/ "exception" \in checkNameLower
    THEN hasErrorLog(report)
    ELSE IF "timeout" \in checkNameLower
    THEN report.executionTimeMs >
           (IF report.agentId # "" THEN 300000 ELSE 60000)
    ELSE IF "sensitive" \in checkNameLower
    THEN sensitivePatterns \cap stringify(report.output) # {}
    ELSE FALSE

checkHeuristic(report, check) ==
  LET checkNameLower == words(toLowerCase(check.name)) IN
    IF "long_execution" \in checkNameLower
    THEN report.executionTimeMs > 60000
    ELSE IF "many_errors" \in checkNameLower
    THEN report.errorLogs > 3
    ELSE IF "unexpected_output" \in checkNameLower
    THEN report.output.kind \in {"null", "undefined"}
    ELSE FALSE

detected(report, check) ==
  CASE check.checkType = "pattern" -> checkPattern(report, check)
    [] check.checkType = "heuristic" -> checkHeuristic(report, check)
    [] OTHER -> FALSE

\* in tenths
calculateRiskValue(report) ==
  Min(10, (IF hasErrorLog(report) THEN 3 ELSE 0)
          + (IF report.executionTimeMs > 300000 THEN 2 ELSE 0)
          + (IF report.output.kind \in {"null", "undefined"} THEN 4 ELSE 0)
          + (IF report.output.chars > 1000000 THEN 1 ELSE 0))

getSeverityFromValueStrict(value) ==
  IF value > riskThresholds.critical THEN "critical"
  ELSE IF value > riskThresholds.high THEN "high"
  ELSE IF value > riskThresholds.medium THEN "medium"
  ELSE "low"

getSeverityFromValue(value) ==
  IF value >= riskThresholds.critical THEN "critical"
  ELSE IF value >= riskThresholds.high THEN "high"
  ELSE IF value >= riskThresholds.medium THEN "medium"
  ELSE "low"

\* JSON.stringify(undefined) is undefined: taking its length or lower case
\* throws a TypeError
runRiskCheckThrows(report, check) ==
  /\ report.output.kind = "undefined"
  /\ check.checkType = "pattern" \/ detected(report, check)

\* the findings of runRiskCheck, as a sequence of zero or one factors
runRiskCheck(report, check) ==
  IF detected(report, check)
     /\ calculateRiskValue(report) >= check.threshold
  THEN <<[type |-> check.name,
          severity |-> getSeverityFromValue(calculateRiskValue(report)),
          description |-> check.description]>>
  ELSE <<>>

RECURSIVE runRiskChecks(_, _)
runRiskChecks(report, riskChecks) ==
  IF riskChecks = <<>> THEN <<>>
  ELSE runRiskCheck(report, Head(riskChecks))
       \o runRiskChecks(report, Tail(riskChecks))

some(factors, severity) ==
  \E i \in 1..Len(factors) : factors[i].severity = severity

calculateOverallRiskNoHigh(factors) ==
  IF factors = <<>> THEN "low"
  ELSE IF some(factors, "critical") THEN "critical"
  ELSE IF some(factors, "medium") \/ some(factors, "high") THEN "medium"
  ELSE "low"

calculateOverallRisk(factors) ==
  IF factors = <<>> THEN "low"
  ELSE IF some(factors, "critical") THEN "critical"
  ELSE IF some(factors, "high") THEN "high"
  ELSE IF some(factors, "medium") THEN "medium"
  ELSE "low"

\* the number of recommendations
generateRecommendations(factors, overallRisk) ==
  LET typed(word) ==
        IF \E i \in 1..Len(factors) : word \in words(factors[i].type)
        THEN 1 ELSE 0
  IN (IF overallRisk \in {"critical", "high"} THEN 2 ELSE 0)
     + typed("error") + typed("timeout") + typed("sensitive")

assessRisk(report, riskChecks) ==
  LET riskFactors == runRiskChecks(report, riskChecks)
      overallRisk == calculateOverallRisk(riskFactors)
  IN [threw |-> \E i \in 1..Len(riskChecks) :
                  runRiskCheckThrows(report, riskChecks[i]),
      overallRisk |-> overallRisk,
      riskFactors |-> riskFactors,
      recommendations |-> generateRecommendations(riskFactors, overallRisk),
      requiresHumanReview |->
        \/ overallRisk = "high"
        \/ overallRisk = "critical"
        \/ some(riskFactors, "critical")]

\* ------------------------------------------------------ approval workflow
decideHumanLast(humanDecision, autoApproveLowRisk, quality, risk) ==
  IF autoApproveLowRisk /\ risk.overallRisk = "low" /\ quality.meetsCriteria
  THEN "approved"
  ELSE IF ~ quality.meetsCriteria
  THEN "requires_improvement"
  ELSE IF humanDecision # absent
  THEN humanDecision
  ELSE IF risk.requiresHumanReview \/ risk.overallRisk \in {"critical", "high"}
  THEN "requires_improvement"
  ELSE IF quality.meetsCriteria /\ risk.overallRisk = "low"
  THEN "approved"
  ELSE "requires_improvement"

decideByRecords(humanDecision, autoApproveLowRisk, quality, risk) ==
  IF humanDecision # absent
  THEN humanDecision
  ELSE IF engine.approvals # <<>>
  THEN engine.approvals[Len(engine.approvals)].decision
  ELSE IF ~ quality.meetsCriteria
  THEN "requires_improvement"
  ELSE IF risk.requiresHumanReview \/ risk.overallRisk \in {"critical", "high"}
  THEN "requires_improvement"
  ELSE IF quality.meetsCriteria /\ risk.overallRisk = "low"
  THEN "approved"
  ELSE "requires_improvement"

decideAutoApproveAnyQuality(humanDecision, autoApproveLowRisk, quality, risk) ==
  IF humanDecision # absent
  THEN humanDecision
  ELSE IF autoApproveLowRisk /\ risk.overallRisk = "low"
  THEN "approved"
  ELSE IF ~ quality.meetsCriteria
  THEN "requires_improvement"
  ELSE IF risk.requiresHumanReview \/ risk.overallRisk \in {"critical", "high"}
  THEN "requires_improvement"
  ELSE IF quality.meetsCriteria /\ risk.overallRisk = "low"
  THEN "approved"
  ELSE "requires_improvement"

decideAutoOnly(humanDecision, autoApproveLowRisk, quality, risk) ==
  IF humanDecision # absent
  THEN humanDecision
  ELSE IF autoApproveLowRisk /\ risk.overallRisk = "low"
          /\ quality.meetsCriteria
  THEN "approved"
  ELSE "requires_improvement"

decideRejectsCritical(humanDecision, autoApproveLowRisk, quality, risk) ==
  IF humanDecision # absent
  THEN humanDecision
  ELSE IF autoApproveLowRisk /\ risk.overallRisk = "low"
          /\ quality.meetsCriteria
  THEN "approved"
  ELSE IF risk.overallRisk = "critical"
  THEN "rejected"
  ELSE IF ~ quality.meetsCriteria
  THEN "requires_improvement"
  ELSE IF risk.requiresHumanReview \/ risk.overallRisk = "high"
  THEN "requires_improvement"
  ELSE IF quality.meetsCriteria /\ risk.overallRisk = "low"
  THEN "approved"
  ELSE "requires_improvement"

\* the decision of processApproval
decide(humanDecision, autoApproveLowRisk, quality, risk) ==
  IF humanDecision # absent
  THEN humanDecision
  ELSE IF autoApproveLowRisk /\ risk.overallRisk = "low"
          /\ quality.meetsCriteria
  THEN "approved"
  ELSE IF ~ quality.meetsCriteria
  THEN "requires_improvement"
  ELSE IF risk.requiresHumanReview \/ risk.overallRisk \in {"critical", "high"}
  THEN "requires_improvement"
  ELSE IF quality.meetsCriteria /\ risk.overallRisk = "low"
  THEN "approved"
  ELSE "requires_improvement"

\* the parts that generateFeedback joins into the feedback string
generateFeedback(quality, risk) ==
  <<"Quality score">>
  \o (IF ~ quality.meetsCriteria /\ quality.feedback > 0
      THEN <<"Issues">> ELSE <<>>)
  \o <<"Risk level">>
  \o (IF risk.recommendations > 0 THEN <<"Recommendations">> ELSE <<>>)

\* n entries of one kind pushed to an array
push(kind, n) == [i \in 1..n |-> kind]

generateImprovementRequirements(quality, risk) ==
  (IF ~ quality.meetsCriteria
   THEN push("Add missing required fields",
             IF Len(quality.missingFields) > 0 THEN 1 ELSE 0)
        \o push("quality feedback", quality.feedback)
   ELSE <<>>)
  \o push("Address high-risk issues",
          IF risk.overallRisk \in {"high", "critical"} THEN 1 ELSE 0)
  \o push("recommendation", risk.recommendations)

approvalRecord(id, request, decision, quality, risk) ==
  [id |-> id, reportId |-> request.report.id, decision |-> decision,
   decisionBy |-> IF request.humanDecision # absent THEN "human"
                  ELSE "automated",
   feedback |-> generateFeedback(quality, risk),
   improvementRequirements |->
     IF decision = "requires_improvement"
     THEN given(generateImprovementRequirements(quality, risk))
     ELSE leftOut]

\* a Map that keeps one approval record for each report
setLatest(approvals, record) ==
  IF \E i \in 1..Len(approvals) : approvals[i].reportId = record.reportId
  THEN [i \in 1..Len(approvals) |->
          IF approvals[i].reportId = record.reportId
          THEN [record EXCEPT !.id = i] ELSE approvals[i]]
  ELSE Append(approvals, record)

\* this.approvals.set(id, record) with the fresh id uuidv4() gave: the
\* ids are 1, 2, ... and approvals[id] is this.approvals.get(id)
set(approvals, record) == Append(approvals, record)

NoEvaluation ==
  [threw |-> FALSE, score |-> 0, meetsCriteria |-> FALSE,
   missingFields |-> <<>>, feedback |-> 0]

NoAssessment ==
  [threw |-> FALSE, overallRisk |-> absent, riskFactors |-> <<>>,
   recommendations |-> 0, requiresHumanReview |-> FALSE]

\* what a call gave its caller: the values returned, or an exception
outcome(op, request, decision, quality, risk) ==
  IF quality.threw \/ risk.threw
  THEN [op |-> op, request |-> request, threw |-> TRUE, decision |-> absent,
        qualityEvaluation |-> NoEvaluation, riskAssessment |-> NoAssessment]
  ELSE [op |-> op, request |-> request, threw |-> FALSE,
        decision |-> decision, qualityEvaluation |-> quality,
        riskAssessment |-> risk]

\* config.qualityStandards.autoApproveLowRisk is false unless the
\* environment sets it; the engine starts with no approval records
IdleEngine ==
  [autoApproveLowRisk |-> FALSE, approvals |-> <<>>, input |-> <<>>,
   calls |-> <<>>]

\* POST /api/ceo-bitch/review and the order flows call reviewReport
reviewReport(requests) ==
  /\ engine.input = <<>>
  /\ Len(engine.calls) < MaxReviews
  /\ \E request \in requests :
       engine' = [engine EXCEPT !.input = <<request>>]
  /\ UNCHANGED <<clock, orders, reports, lockHolder, proc, http, client>>

ReviewReport == reviewReport(ReviewRequests)

\* the engine after processApproval(request), called through op
processApproval(request, op) ==
  LET quality == evaluateQuality(request.report, request.qualityCriteria)
      risk == assessRisk(request.report, request.riskChecks)
      decision == decide(request.humanDecision, engine.autoApproveLowRisk,
                         quality, risk)
      result == outcome(op, request, decision, quality, risk)
  IN [engine EXCEPT
        !.input = <<>>,
        !.approvals =
           IF result.threw THEN @
           ELSE set(@, approvalRecord(Len(@) + 1, request, decision,
                                      quality, risk)),
        !.calls = Append(@, result)]

ProcessApproval ==
  /\ engine.input # <<>>
  /\ engine' = processApproval(Head(engine.input), "processApproval")
  /\ UNCHANGED <<clock, orders, reports, lockHolder, proc, http, client>>

\* QualityGateFlow.handleFeedbackLoop: runQualityGate on the improved
\* report, which evaluates, assesses and then reviews it
handleFeedbackLoop(requests) ==
  /\ engine.input = <<>>
  /\ engine.approvals # <<>>
  /\ Len(engine.calls) < MaxReviews
  /\ \E improved \in requests :
       /\ improved.humanDecision = absent
       /\ engine' = processApproval(improved, "handleFeedbackLoop")
  /\ UNCHANGED <<clock, orders, reports, lockHolder, proc, http, client>>

HandleFeedbackLoop == handleFeedbackLoop(ReviewRequests)

\* the evaluator called on its own (POST /api/ceo-bitch/evaluate, tests)
EvaluateQuality ==
  /\ engine.input # <<>>
  /\ LET request == Head(engine.input)
         quality == evaluateQuality(request.report, request.qualityCriteria)
     IN engine' = [engine EXCEPT
          !.input = <<>>,
          !.calls = Append(@, outcome("evaluateQuality", request, absent,
                                      quality, NoAssessment))]
  /\ UNCHANGED <<clock, orders, reports, lockHolder, proc, http, client>>

\* the assessor called on its own (POST /api/ceo-bitch/assess-risk, tests)
AssessRisk ==
  /\ engine.input # <<>>
  /\ LET request == Head(engine.input)
         risk == assessRisk(request.report, request.riskChecks)
     IN engine' = [engine EXCEPT
          !.input = <<>>,
          !.calls = Append(@, outcome("assessRisk", request, absent,
                                      NoEvaluation, risk))]
  /\ UNCHANGED <<clock, orders, reports, lockHolder, proc, http, client>>

\* ------------------------------------------------ autonomous order flow
\* the descriptions of the orders the flow is run on
FlowDescriptions == Descriptions \cup {"build a landing page"}

createLandingPageIfRequested(description) ==
  IF "landing page" \in words(toLowerCase(description))
     \/ "landingpage" \in words(toLowerCase(description))
  THEN <<"public/landing-page.html">>
  ELSE <<>>

\* the report of the staging execution of an order with the files it
\* created; JSON.stringify(output) has 76 characters with a uuid as order
\* id and no file, 102 with the landing page
executeInStagingFor(order) ==
  LET createdFiles == createLandingPageIfRequested(order.description) IN
    [executeInStaging(order.id) EXCEPT
       !.output = [kind |-> "object",
                   value |-> {property("success", "boolean", "true"),
                              property("orderId", "string", order.id),
                              property("files", "object", "")},
                   chars |-> IF createdFiles = <<>> THEN 76 ELSE 102,
                   files |-> createdFiles]]

extractCodeFiles(report) == report.output.files

\* confidence in hundredths; the output holds no TODO, FIXME or console.log
performAmpReview(codeFiles, chars) ==
  LET approved == chars # 0 /\ codeFiles # <<>>
      confidence == IF codeFiles # <<>> /\ chars > 100 /\ approved THEN 90
                    ELSE IF codeFiles = <<>> THEN 50
                    ELSE IF chars = 0 THEN 0
                    ELSE 80
  IN [approved |-> approved, confidence |-> confidence]

\* committed: gitGateway.ensureCommitted did not throw
reviewCode(report, committed) ==
  IF extractCodeFiles(report) # <<>> /\ ~ committed
  THEN [approved |-> FALSE, confidence |-> 0]
  ELSE performAmpReview(extractCodeFiles(report), report.output.chars)

\* the playbook of the agent created for an order
parsePlaybookFromAmp ==
  [qualityCriteria |-> [minScore |-> 70, requiredFields |-> <<"result">>,
                        formatRequirements |-> leftOut,
                        contentRequirements |-> leftOut],
   riskChecks |-> <<[riskCheck("Error Check", "pattern", 5) EXCEPT
                       !.description = "Check for errors"]>>]

\* the arguments of the flow's call of ceoBitch.reviewReport
flowRequest(order, committed) ==
  LET report == executeInStagingFor(order)
      ampReview == reviewCode(report, committed)
      playbook == parsePlaybookFromAmp
  IN [report |-> report,
      qualityCriteria |->
        IF ~ ampReview.approved
        THEN [playbook.qualityCriteria EXCEPT !.minScore = Max(@, 85)]
        ELSE playbook.qualityCriteria,
      riskChecks |-> playbook.riskChecks,
      humanDecision |->
        IF ampReview.approved /\ ampReview.confidence > 85
        THEN "approved" ELSE absent]

\* ------------------------------------------------------------ processes
\* a process that calls the store: the operation it is in, where it is in
\* withLock, and the data it read from the file
NoOp ==
  [name |-> none, id |-> none, order |-> NoOrder,
   report |-> executionResult(FALSE, none), holder |-> none, now |-> 0]

NoData == [orders |-> <<>>, reports |-> <<>>]

IdleClient ==
  [pc |-> "idle", op |-> NoOp, data |-> NoData, lockStart |-> 0, calls |-> 0,
   error |-> none]

\* the process is between two calls
returned(p) == [IdleClient EXCEPT !.calls = p.calls]

IdleClients == [c \in Clients |-> IdleClient]

\* an Order Processor: isProcessing is its guard, timer the interval timer
\* set by start ("expired" while its callback waits to be run)
IdleProc ==
  [pc |-> "idle", now |-> 0, due |-> <<>>, order |-> NoOrder,
   approved |-> FALSE, lockStart |-> 0, catchNow |-> 0,
   isProcessing |-> FALSE, timer |-> "armed"]

IdleHttp ==
  [pc |-> "idle", orderId |-> none, decision |-> none, order |-> NoOrder,
   found |-> executionResult(FALSE, none), lockStart |-> 0,
   reportId |-> none, approvalRecordId |-> undefined]

Init ==
  /\ clock = TimeStep
  /\ orders = <<>>
  /\ reports = <<>>
  /\ lockHolder = none
  /\ proc = [w \in Workers |-> IdleProc]
  /\ http = IdleHttp
  /\ engine = IdleEngine
  /\ client = IdleClients

\* ------------------------------------------------------------- lock file
LockPcs ==
  {"acquireLease_lock", "start_lock", "complete_lock", "report_lock",
   "fail_lock"}

heldPc(pc) ==
  CASE pc = "acquireLease_lock" -> "acquireLease_apply"
    [] pc = "start_lock" -> "start_apply"
    [] pc = "complete_lock" -> "complete_apply"
    [] pc = "report_lock" -> "report_apply"
    [] pc = "fail_lock" -> "fail_apply"

lockFreeAlways(holder) == TRUE

lockFree(holder) == holder = none

\* Date.now() - start > timeoutMs.  A waiter polls every 50 ms and time
\* passes for it only while the lock file is taken (see advanceClock), so
\* once this holds a poll has failed after the timeout and it has thrown.
lockTimedOut(start, t) == t - start > timeoutMs

\* ---------------------------------------------------- tick and processOrder
finallyKeepsGuard(p) ==
  [IdleProc EXCEPT !.timer = p.timer, !.isProcessing = TRUE]

\* the finally block of tick: the tick body is left, the guard is cleared
finally(p) == [IdleProc EXCEPT !.timer = p.timer]

\* the for loop of tick moves on to the next due order, or the tick ends
continue(p, t) ==
  IF Tail(p.due) = <<>>
  THEN finally(p)
  ELSE [IdleProc EXCEPT !.pc = "acquireLease_lock", !.now = p.now,
                        !.due = Tail(p.due), !.lockStart = t,
                        !.isProcessing = p.isProcessing, !.timer = p.timer]

\* the catch block of processOrder
catch(p, message, t) ==
  [p EXCEPT !.pc = "fail_lock", !.order = failedOrder(p.order, message, t),
            !.catchNow = t, !.lockStart = t, !.approved = FALSE]

\* POST /api/owner/orders: the ids are created in the order of the sequence
postOrders(ids, descriptions) ==
  /\ lockFree(lockHolder)
  /\ \E i \in 1..Len(ids) :
       /\ ids[i] \notin DOMAIN orders
       /\ \A j \in 1..(i - 1) : ids[j] \in DOMAIN orders
       /\ \E description \in descriptions :
            orders' = updateOrder(orders, newOrder(ids[i], description, clock))
  /\ UNCHANGED <<clock, reports, lockHolder, proc, http, engine, client>>

submitOrder(ids) == postOrders(ids, Descriptions)

submitFlowOrder == postOrders(OwnerOrderIds, FlowDescriptions)

\* A process that can take its next step at once: it has a record to read,
\* or it polls for the lock file (every 50 ms) while the file is absent.
ready(pc, start) ==
  \/ pc \in {"acquireLease_read", "getOrder", "getDueOrders"}
  \/ /\ pc \in LockPcs \cup {"update_lock", "report_lock"}
     /\ lockFree(lockHolder)
     /\ ~ lockTimedOut(start, clock)

\* Time passes while every process sleeps between ticks, runs the executor,
\* waits for the lock file taken by another process or does the file I/O of
\* its critical section.
advanceClock(limit) ==
  /\ clock + TimeStep <= limit
  /\ \A w \in Workers : ~ ready(proc[w].pc, proc[w].lockStart)
  /\ ~ ready(http.pc, http.lockStart)
  /\ clock' = clock + TimeStep
  /\ UNCHANGED <<orders, reports, lockHolder, proc, http, engine, client>>

AdvanceClock == advanceClock(MaxTime)

AdvanceClockRetry == advanceClock(MaxRetryTime)

\* Time passing while no store operation is under way, so that none waits
\* for the lock file long enough to time out; beyond MaxTime it passes
\* only while an order waits for its nextAttemptAt.
AdvanceClockNoTimeout ==
  /\ \/ clock + TimeStep <= MaxTime
     \/ \E id \in DOMAIN orders :
          orders[id].status = "failed" /\ orders[id].nextAttemptAt > clock
  /\ \A w \in Workers : proc[w].pc \in {"idle", "executing"}
  /\ clock' = clock + TimeStep
  /\ UNCHANGED <<orders, reports, lockHolder, proc, http, engine, client>>

\* a tick that finds due orders, from the timer's callback to the first
\* acquireLease (a tick that finds none leaves every variable as it was)
tick(w) ==
  /\ proc[w].pc = "idle"
  /\ ~ proc[w].isProcessing
  /\ LET dueOrders == getDueOrders(orders, clock) IN
       /\ dueOrders # <<>>
       /\ proc' = [proc EXCEPT ![w] =
            [IdleProc EXCEPT !.pc = "acquireLease_lock", !.now = clock,
                             !.due = dueOrders, !.lockStart = clock,
                             !.isProcessing = TRUE,
                             !.timer = proc[w].timer]]
  /\ UNCHANGED <<clock, orders, reports, lockHolder, http, engine, client>>

\* setInterval: pollIntervalMs have passed, the callback is to be run
interval(w) ==
  /\ proc[w].timer = "armed"
  /\ proc' = [proc EXCEPT ![w].timer = "expired"]
  /\ UNCHANGED <<clock, orders, reports, lockHolder, http, engine, client>>

\* the callback runs while a tick is running: it returns at once
tickSkipped(w) ==
  /\ proc[w].timer = "expired"
  /\ proc[w].isProcessing
  /\ proc' = [proc EXCEPT ![w].timer = "armed"]
  /\ UNCHANGED <<clock, orders, reports, lockHolder, http, engine, client>>

\* the callback runs while no tick is running: the guard is set, now is
\* read and getDueOrders is awaited
tickBegins(w) ==
  /\ proc[w].timer = "expired"
  /\ ~ proc[w].isProcessing
  /\ proc' = [proc EXCEPT ![w] =
       [IdleProc EXCEPT !.pc = "getDueOrders", !.now = clock,
                        !.isProcessing = TRUE]]
  /\ UNCHANGED <<clock, orders, reports, lockHolder, http, engine, client>>

\* getDueOrders returns: the for loop begins, or the tick ends
tickGetDueOrders(w) ==
  /\ proc[w].pc = "getDueOrders"
  /\ LET dueOrders == getDueOrders(orders, proc[w].now) IN
       proc' = [proc EXCEPT ![w] =
         IF dueOrders = <<>>
         THEN finally(proc[w])
         ELSE [proc[w] EXCEPT !.pc = "acquireLease_lock", !.due = dueOrders,
                              !.lockStart = clock]]
  /\ UNCHANGED <<clock, orders, reports, lockHolder, http, engine, client>>

acquireFileLock(w) ==
  /\ proc[w].pc \in LockPcs
  /\ lockFree(lockHolder)
  /\ ~ lockTimedOut(proc[w].lockStart, clock)
  /\ lockHolder' = w
  /\ proc' = [proc EXCEPT ![w].pc = heldPc(proc[w].pc)]
  /\ UNCHANGED <<clock, orders, reports, http, engine, client>>

\* a lock timeout outside the try block of processOrder ends the tick
tickLockTimeout(w) ==
  /\ proc[w].pc \in {"acquireLease_lock", "start_lock", "fail_lock"}
  /\ lockTimedOut(proc[w].lockStart, clock)
  /\ proc' = [proc EXCEPT ![w] = finally(proc[w])]
  /\ UNCHANGED <<clock, orders, reports, lockHolder, http, engine, client>>

\* a lock timeout inside the try block of processOrder enters its catch
processLockTimeout(w) ==
  /\ proc[w].pc \in {"complete_lock", "report_lock"}
  /\ lockTimedOut(proc[w].lockStart, clock)
  /\ proc' = [proc EXCEPT ![w] = catch(proc[w], LockTimeoutError, clock)]
  /\ UNCHANGED <<clock, orders, reports, lockHolder, http, engine, client>>

acquireLease(w) ==
  /\ proc[w].pc = "acquireLease_apply"
  /\ lockHolder = w
  /\ LET id == Head(proc[w].due) IN
       IF canAcquire(orders, id, proc[w].now)
       THEN /\ orders' = updateOrder(orders,
                 leasedOrder(orders[id], w, leaseMs, proc[w].now, clock))
            /\ proc' = [proc EXCEPT ![w].pc = "acquireLease_read"]
       ELSE /\ orders' = orders
            /\ proc' = [proc EXCEPT ![w] = continue(proc[w], clock)]
  /\ lockHolder' = none
  /\ UNCHANGED <<clock, reports, http, engine, client>>

\* acquireLease returns getOrder(orderId), processOrder builds startedOrder
processOrderUpTo(w, cap) ==
  /\ proc[w].pc = "acquireLease_read"
  /\ LET leased == orders[Head(proc[w].due)] IN
       /\ leased.attemptCount < cap
       /\ proc' = [proc EXCEPT ![w].pc = "start_lock",
                               ![w].order = startedOrder(leased, clock),
                               ![w].lockStart = clock]
  /\ UNCHANGED <<clock, orders, reports, lockHolder, http, engine, client>>

processOrder(w) == processOrderUpTo(w, MaxAttemptCount)

processOrderRetry(w) == processOrderUpTo(w, MaxRetryAttempts)

\* updateOrder(startedOrder), then the executor is invoked
startOrder(w) ==
  /\ proc[w].pc = "start_apply"
  /\ lockHolder = w
  /\ orders' = updateOrder(orders, proc[w].order)
  /\ lockHolder' = none
  /\ proc' = [proc EXCEPT ![w].pc = "executing"]
  /\ UNCHANGED <<clock, reports, http, engine, client>>

executeOrderReturns(w) ==
  /\ proc[w].pc = "executing"
  /\ \E approved \in BOOLEAN :
       proc' = [proc EXCEPT ![w].pc = "complete_lock",
                            ![w].approved = approved,
                            ![w].lockStart = clock]
  /\ UNCHANGED <<clock, orders, reports, lockHolder, http, engine, client>>

executeOrderThrows(w) ==
  /\ proc[w].pc = "executing"
  /\ proc' = [proc EXCEPT ![w] = catch(proc[w], ExecutorError, clock)]
  /\ UNCHANGED <<clock, orders, reports, lockHolder, http, engine, client>>

\* AutonomousOrderFlow.executeOrder: staging run, Amp review and the review
\* of the decision engine; an exception of the review is thrown on
executeOrder(w) ==
  /\ proc[w].pc = "executing"
  /\ \E committed \in BOOLEAN :
       LET reviewed == processApproval(flowRequest(proc[w].order, committed),
                                       "executeOrder")
           approvalResult == reviewed.calls[Len(reviewed.calls)]
       IN /\ engine' = reviewed
          /\ proc' = [proc EXCEPT ![w] =
               IF approvalResult.threw
               THEN catch(proc[w], ExecutorError, clock)
               ELSE [proc[w] EXCEPT
                       !.pc = "complete_lock",
                       !.approved = (approvalResult.decision = "approved"),
                       !.lockStart = clock]]
  /\ UNCHANGED <<clock, orders, reports, lockHolder, http, client>>

\* completedOrder was built when the executor returned, the instant the
\* wait for the lock file began
completeOrder(w) ==
  /\ proc[w].pc = "complete_apply"
  /\ lockHolder = w
  /\ orders' = updateOrder(orders,
       completedOrder(proc[w].order, proc[w].lockStart))
  /\ lockHolder' = none
  /\ proc' = [proc EXCEPT ![w].pc = "report_lock", ![w].lockStart = clock]
  /\ UNCHANGED <<clock, reports, http, engine, client>>

storeReport(w) ==
  /\ proc[w].pc = "report_apply"
  /\ lockHolder = w
  /\ reports' = setReport(reports, proc[w].order.id,
                          executionResult(proc[w].approved, proc[w].order.id))
  /\ lockHolder' = none
  /\ proc' = [proc EXCEPT ![w] = continue(proc[w], clock)]
  /\ UNCHANGED <<clock, orders, http, engine, client>>

failOrder(w) ==
  /\ proc[w].pc = "fail_apply"
  /\ lockHolder = w
  /\ orders' = updateOrder(orders, proc[w].order)
  /\ lockHolder' = none
  /\ proc' = [proc EXCEPT ![w] = continue(proc[w], clock)]
  /\ UNCHANGED <<clock, reports, http, engine, client>>

\* an executor that fails at most MaxFailures attempts of an order
executeOrderFails(w) ==
  /\ proc[w].order.attemptCount <= MaxFailures
  /\ executeOrderThrows(w)

\* the worker process dies while the executor runs and is started again
crash(w) ==
  /\ proc[w].pc = "executing"
  /\ proc' = [proc EXCEPT ![w] = IdleProc]
  /\ UNCHANGED <<clock, orders, reports, lockHolder, http, engine, client>>

\* ------------------------------------------- POST /api/owner/approvals/:id
HttpLockPcs == {"update_lock", "report_lock"}

\* req.params.reportId and req.body.decision: any strings
ReportIds == {execId(id) : id \in Range(OrderIds)}

RequestDecisions == Decisions \cup {"approve"}

\* the first order whose stored result carries the report id, or none
findFirstReport(data, reportId) ==
  LET found == SelectSeq(OrderIds, LAMBDA id : id \in DOMAIN data)
  IN IF found = <<>> THEN none ELSE Head(found)

findReportByReportId(data, reportId) ==
  LET found == SelectSeq(OrderIds, LAMBDA id :
                 id \in DOMAIN data /\ data[id].report.id = reportId)
  IN IF found = <<>> THEN none ELSE Head(found)

\* the arguments of the route's call of ceoBitch.reviewReport
reviewRequest(foundReport, decision) ==
  [report |-> foundReport,
   qualityCriteria |-> [minScore |-> 70, requiredFields |-> <<>>,
                        formatRequirements |-> leftOut,
                        contentRequirements |-> leftOut],
   riskChecks |-> <<>>, humanDecision |-> decision]

\* a request arrives
approvalRequest ==
  /\ http.pc = "idle"
  /\ Len(engine.calls) < MaxOverrides
  /\ \E reportId \in ReportIds, decision \in RequestDecisions :
       http' = [IdleHttp EXCEPT !.pc = "findReport", !.reportId = reportId,
                                !.decision = decision]
  /\ UNCHANGED <<clock, orders, reports, lockHolder, proc, engine, client>>

\* the decision is validated (400), the report is looked up (404) and
\* reviewed with the owner's decision
approvalFindReport ==
  /\ http.pc = "findReport"
  /\ LET orderId == findReportByReportId(reports, http.reportId) IN
       IF http.decision \notin Decisions \/ orderId = none
       THEN /\ http' = IdleHttp
            /\ engine' = engine
       ELSE /\ http' = [http EXCEPT
                 !.pc = "getOrder", !.orderId = orderId,
                 !.found = reports[orderId],
                 !.approvalRecordId = Len(engine.approvals) + 1]
            /\ engine' = processApproval(
                 reviewRequest(reports[orderId].report, http.decision),
                 "processApproval")
  /\ UNCHANGED <<clock, orders, reports, lockHolder, proc, client>>

overriddenOrder(order, decision, t) ==
  [order EXCEPT
     !.status = IF decision = "approved" THEN "completed" ELSE "pending",
     !.nextAttemptAt = IF decision # "approved" THEN t ELSE undefined,
     !.updatedAt = t]

approvalGetOrder ==
  /\ http.pc = "getOrder"
  /\ http' = [http EXCEPT
       !.pc = "update_lock",
       !.order = overriddenOrder(orders[http.orderId], http.decision, clock),
       !.lockStart = clock]
  /\ UNCHANGED <<clock, orders, reports, lockHolder, proc, engine, client>>

httpAcquireFileLock ==
  /\ http.pc \in HttpLockPcs
  /\ lockFree(lockHolder)
  /\ ~ lockTimedOut(http.lockStart, clock)
  /\ lockHolder' = "http"
  /\ http' = [http EXCEPT
       !.pc = IF http.pc = "update_lock" THEN "update_apply"
                                         ELSE "report_apply"]
  /\ UNCHANGED <<clock, orders, reports, proc, engine, client>>

httpLockTimeout ==
  /\ http.pc \in HttpLockPcs
  /\ lockTimedOut(http.lockStart, clock)
  /\ http' = IdleHttp
  /\ UNCHANGED <<clock, orders, reports, lockHolder, proc, engine, client>>

approvalUpdateOrder ==
  /\ http.pc = "update_apply"
  /\ lockHolder = "http"
  /\ orders' = updateOrder(orders, http.order)
  /\ lockHolder' = none
  /\ http' = [http EXCEPT !.pc = "report_lock", !.lockStart = clock]
  /\ UNCHANGED <<clock, reports, proc, engine, client>>

approvalSetReport ==
  /\ http.pc = "report_apply"
  /\ lockHolder = "http"
  /\ reports' = setReport(reports, http.orderId,
       [http.found EXCEPT !.approved = (http.decision = "approved"),
                          !.approvalRecordId = http.approvalRecordId])
  /\ lockHolder' = none
  /\ http' = IdleHttp
  /\ UNCHANGED <<clock, orders, proc, engine, client>>

\* ------------------------------------- store operations, step by step
\* the function a mutating operation hands to withLock
fn(op, data, date) ==
  CASE op.name \in {"createOrder", "updateOrder"} ->
         [data EXCEPT !.orders = updateOrder(@, op.order)]
    [] op.name = "setReport" ->
         [data EXCEPT !.reports = setReport(@, op.id, op.report)]
    [] op.name = "acquireLease" ->
         IF canAcquire(data.orders, op.id, op.now)
         THEN [data EXCEPT !.orders = updateOrder(@,
                 leasedOrder(data.orders[op.id], op.holder, leaseMs, op.now,
                             date))]
         ELSE data
    [] op.name = "releaseLease" ->
         IF op.id \in DOMAIN data.orders
         THEN [data EXCEPT !.orders =
                 updateOrder(@, releasedOrder(data.orders[op.id], date))]
         ELSE data

\* the orders that processOrder hands to updateOrder, made from the
\* record of a leased order read before the call
updatedOrders(order, t) ==
  IF order.status # "in_progress" THEN {}
  ELSE {completedOrder(order, t), failedOrder(order, ExecutorError, t)}
         \cup (IF order.attemptCount < MaxAttemptCount
               THEN {startedOrder(order, t)} ELSE {})

\* the records an order submitted at time t can have while no process is
\* working on it
storedOrder(id, t) ==
  LET leased == leasedOrder(newOrder(id, "write code", t), "c1", leaseMs,
                            t, t)
      started == startedOrder(leased, t)
  IN {newOrder(id, "write code", t), started,
      failedOrder(started, ExecutorError, t), completedOrder(started, t)}

\* the contents of the store: the ids are created in the order of OrderIds
StoredOrders(t) ==
  UNION {{data \in [{OrderIds[i] : i \in 1..n} ->
                      UNION {storedOrder(id, t) : id \in Range(OrderIds)}] :
            \A id \in DOMAIN data : data[id].id = id} :
         n \in 0..Len(OrderIds)}

\* the mutating operations a process can call at time t
StoreOps(c, t) ==
  {[NoOp EXCEPT !.name = "createOrder", !.id = OrderIds[i],
                !.order = newOrder(OrderIds[i], description, t)] :
     i \in {j \in 1..Len(OrderIds) :
              /\ OrderIds[j] \notin DOMAIN orders
              /\ \A k \in 1..(j - 1) : OrderIds[k] \in DOMAIN orders},
     description \in Descriptions}
  \cup {[NoOp EXCEPT !.name = "updateOrder", !.id = order.id,
                     !.order = order] :
          order \in UNION {updatedOrders(orders[id], t) :
                             id \in DOMAIN orders}}
  \cup {[NoOp EXCEPT !.name = "setReport", !.id = id,
                     !.report = executionResult(approved, id)] :
          id \in DOMAIN orders, approved \in BOOLEAN}
  \cup {[NoOp EXCEPT !.name = "acquireLease", !.id = id, !.holder = c,
                     !.now = t] : id \in Range(OrderIds)}
  \cup {[NoOp EXCEPT !.name = "releaseLease", !.id = id] :
          id \in Range(OrderIds)}

\* the number of calls the processes cs have made
RECURSIVE callsOf(_)
callsOf(cs) ==
  IF cs = {} THEN 0
  ELSE LET c == CHOOSE x \in cs : TRUE
       IN client[c].calls + callsOf(cs \ {c})

\* a process calls a mutating operation: withLock begins
storeCall(c) ==
  /\ client[c].pc = "idle"
  /\ callsOf(Clients) < MaxCalls
  /\ \E op \in StoreOps(c, clock) :
       client' = [client EXCEPT ![c] =
         [IdleClient EXCEPT !.pc = "acquireFileLock", !.op = op,
                            !.lockStart = clock,
                            !.calls = client[c].calls + 1]]
  /\ UNCHANGED <<clock, orders, reports, lockHolder, proc, http, engine>>

\* fs.open(lockPath, 'wx') succeeds
storeAcquireFileLock(c) ==
  /\ client[c].pc = "acquireFileLock"
  /\ lockFree(lockHolder)
  /\ ~ lockTimedOut(client[c].lockStart, clock)
  /\ lockHolder' = c
  /\ client' = [client EXCEPT ![c].pc = "readData"]
  /\ UNCHANGED <<clock, orders, reports, proc, http, engine>>

storeLockTimeoutUnlinks(c) ==
  /\ client[c].pc = "acquireFileLock"
  /\ lockTimedOut(client[c].lockStart, clock)
  /\ client' = [client EXCEPT ![c] =
       [returned(client[c]) EXCEPT !.error = LockTimeoutError]]
  /\ lockHolder' = none
  /\ UNCHANGED <<clock, orders, reports, proc, http, engine>>

\* acquireFileLock throws before the try of withLock is entered: the
\* operation ends with the error, its finally is not run
storeLockTimeout(c) ==
  /\ client[c].pc = "acquireFileLock"
  /\ lockTimedOut(client[c].lockStart, clock)
  /\ client' = [client EXCEPT ![c] =
       [returned(client[c]) EXCEPT !.error = LockTimeoutError]]
  /\ UNCHANGED <<clock, orders, reports, lockHolder, proc, http, engine>>

readData(c) ==
  /\ client[c].pc = "readData"
  /\ client' = [client EXCEPT
       ![c].pc = "writeData",
       ![c].data = [orders |-> orders, reports |-> reports]]
  /\ UNCHANGED <<clock, orders, reports, lockHolder, proc, http, engine>>

\* fn(data) and writeData(updated)
writeData(c) ==
  /\ client[c].pc = "writeData"
  /\ LET updated == fn(client[c].op, client[c].data, clock) IN
       /\ orders' = updated.orders
       /\ reports' = updated.reports
  /\ client' = [client EXCEPT ![c].pc = "releaseFileLock"]
  /\ UNCHANGED <<clock, lockHolder, proc, http, engine>>

\* fs.unlink(lockPath) in the finally of withLock
releaseFileLock(c) ==
  /\ client[c].pc = "releaseFileLock"
  /\ lockHolder' = none
  /\ client' = [client EXCEPT ![c] = returned(client[c])]
  /\ UNCHANGED <<clock, orders, reports, proc, http, engine>>

\* time passes unless a process is about to find the lock file absent
AdvanceClockStore ==
  /\ clock + TimeStep <= MaxTime
  /\ \A c \in Clients :
       client[c].pc = "acquireFileLock" => ~ lockFree(lockHolder)
  /\ clock' = clock + TimeStep
  /\ UNCHANGED <<orders, reports, lockHolder, proc, http, engine, client>>

\* ------------------------------------------------------------ the system
\* Spec: several Order Processors on one store.
Next ==
  \/ submitOrder(OrderIds)
  \/ AdvanceClock
  \/ \E w \in Workers : tick(w)
  \/ \E w \in Workers : acquireFileLock(w)
  \/ \E w \in Workers : tickLockTimeout(w)
  \/ \E w \in Workers : processLockTimeout(w)
  \/ \E w \in Workers : acquireLease(w)
  \/ \E w \in Workers : processOrder(w)
  \/ \E w \in Workers : startOrder(w)
  \/ \E w \in Workers : executeOrderReturns(w)
  \/ \E w \in Workers : executeOrderThrows(w)
  \/ \E w \in Workers : completeOrder(w)
  \/ \E w \in Workers : storeReport(w)
  \/ \E w \in Workers : failOrder(w)
  \/ \E w \in Workers : crash(w)

Spec == Init /\ [][Next]_vars

\* SpecOwner: one Order Processor and the owner's approval route.
NextOwner ==
  \/ submitOrder(OwnerOrderIds)
  \/ AdvanceClock
  \/ tick("w1")
  \/ acquireFileLock("w1")
  \/ tickLockTimeout("w1")
  \/ processLockTimeout("w1")
  \/ acquireLease("w1")
  \/ processOrder("w1")
  \/ startOrder("w1")
  \/ executeOrderReturns("w1")
  \/ executeOrderThrows("w1")
  \/ completeOrder("w1")
  \/ storeReport("w1")
  \/ failOrder("w1")
  \/ crash("w1")
  \/ approvalRequest
  \/ approvalFindReport
  \/ approvalGetOrder
  \/ httpAcquireFileLock
  \/ httpLockTimeout
  \/ approvalUpdateOrder
  \/ approvalSetReport

SpecOwner == Init /\ [][NextOwner]_vars

\* SpecRetry: one Order Processor whose executor always fails.
NextRetry ==
  \/ submitOrder(OwnerOrderIds)
  \/ AdvanceClockRetry
  \/ tick("w1")
  \/ acquireFileLock("w1")
  \/ acquireLease("w1")
  \/ processOrderRetry("w1")
  \/ startOrder("w1")
  \/ executeOrderThrows("w1")
  \/ failOrder("w1")

SpecRetry == Init /\ [][NextRetry]_vars

\* SpecLive: Order Processors that keep ticking and never crash, a store
\* without lock timeouts, an executor that fails a bounded number of times.
worker(w) ==
  \/ tick(w)
  \/ acquireFileLock(w)
  \/ acquireLease(w)
  \/ processOrderRetry(w)
  \/ startOrder(w)
  \/ executeOrderReturns(w)
  \/ executeOrderFails(w)
  \/ completeOrder(w)
  \/ storeReport(w)
  \/ failOrder(w)

NextLive ==
  \/ submitOrder(OrderIds)
  \/ AdvanceClockNoTimeout
  \/ \E w \in Workers : worker(w)

SpecLive ==
  /\ Init
  /\ [][NextLive]_vars
  /\ WF_vars(AdvanceClockNoTimeout)
  /\ \A w \in Workers : WF_vars(worker(w))

\* SpecDecision: one call of the decision engine on any request.
InitDecision ==
  /\ clock = TimeStep
  /\ orders = <<>>
  /\ reports = <<>>
  /\ lockHolder = none
  /\ proc = [w \in Workers |-> IdleProc]
  /\ http = IdleHttp
  /\ client = IdleClients
  /\ \E request \in Requests, autoApproveLowRisk \in BOOLEAN :
       engine = [IdleEngine EXCEPT !.autoApproveLowRisk = autoApproveLowRisk,
                                   !.input = <<request>>]

NextDecision ==
  \/ ProcessApproval
  \/ EvaluateQuality
  \/ AssessRisk

SpecDecision == InitDecision /\ [][NextDecision]_vars

\* SpecReview: a sequence of reviews by one engine.
InitReview ==
  /\ clock = TimeStep
  /\ orders = <<>>
  /\ reports = <<>>
  /\ lockHolder = none
  /\ proc = [w \in Workers |-> IdleProc]
  /\ http = IdleHttp
  /\ client = IdleClients
  /\ \E autoApproveLowRisk \in BOOLEAN :
       engine = [IdleEngine EXCEPT !.autoApproveLowRisk = autoApproveLowRisk]

NextReview ==
  \/ ReviewReport
  \/ ProcessApproval
  \/ HandleFeedbackLoop

SpecReview == InitReview /\ [][NextReview]_vars

\* SpecStore: processes calling the mutating operations of one store that
\* holds orders left by earlier attempts.
InitStore ==
  /\ clock = TimeStep
  /\ orders \in StoredOrders(TimeStep)
  /\ reports = [id \in {k \in DOMAIN orders : orders[k].status = "completed"}
                  |-> executionResult(TRUE, id)]
  /\ lockHolder = none
  /\ proc = [w \in Workers |-> IdleProc]
  /\ http = IdleHttp
  /\ engine = IdleEngine
  /\ client = IdleClients

NextStore ==
  \/ AdvanceClockStore
  \/ \E c \in Clients : storeCall(c)
  \/ \E c \in Clients : storeAcquireFileLock(c)
  \/ \E c \in Clients : storeLockTimeout(c)
  \/ \E c \in Clients : readData(c)
  \/ \E c \in Clients : writeData(c)
  \/ \E c \in Clients : releaseFileLock(c)

SpecStore == InitStore /\ [][NextStore]_vars

\* SpecOverride: the owner's approval route and one Order Processor on a
\* store that holds two orders, the first one completed with its result.
InitOverride ==
  /\ clock = MaxTime
  /\ orders \in {data \in StoredOrders(TimeStep) :
                   /\ DOMAIN data = Range(OrderIds)
                   /\ data[OrderIds[1]].status = "completed"
                   /\ data[OrderIds[2]].status \in {"pending", "completed"}}
  /\ reports = [id \in {k \in DOMAIN orders : orders[k].status = "completed"}
                  |-> executionResult(TRUE, id)]
  /\ lockHolder = none
  /\ proc = [w \in Workers |-> IdleProc]
  /\ http = IdleHttp
  /\ engine = IdleEngine
  /\ client = IdleClients

NextOverride ==
  \/ tick("w1")
  \/ acquireFileLock("w1")
  \/ acquireLease("w1")
  \/ processOrder("w1")
  \/ startOrder("w1")
  \/ executeOrderReturns("w1")
  \/ completeOrder("w1")
  \/ storeReport("w1")
  \/ approvalRequest
  \/ approvalFindReport
  \/ approvalGetOrder
  \/ httpAcquireFileLock
  \/ approvalUpdateOrder
  \/ approvalSetReport

SpecOverride == InitOverride /\ [][NextOverride]_vars

\* SpecFlow: one Order Processor whose executor is the autonomous order
\* flow with its decision engine.
NextFlow ==
  \/ submitFlowOrder
  \/ AdvanceClockNoTimeout
  \/ tick("w1")
  \/ acquireFileLock("w1")
  \/ acquireLease("w1")
  \/ processOrder("w1")
  \/ startOrder("w1")
  \/ executeOrder("w1")
  \/ executeOrderThrows("w1")
  \/ completeOrder("w1")
  \/ storeReport("w1")
  \/ failOrder("w1")

SpecFlow == Init /\ [][NextFlow]_vars

\* SpecTick: Order Processors driven by their interval timers.
NextTick ==
  \/ submitOrder(OwnerOrderIds)
  \/ AdvanceClock
  \/ \E w \in Workers : interval(w)
  \/ \E w \in Workers : tickSkipped(w)
  \/ \E w \in Workers : tickBegins(w)
  \/ \E w \in Workers : tickGetDueOrders(w)
  \/ \E w \in Workers : acquireFileLock(w)
  \/ \E w \in Workers : tickLockTimeout(w)
  \/ \E w \in Workers : processLockTimeout(w)
  \/ \E w \in Workers : acquireLease(w)
  \/ \E w \in Workers : processOrder(w)
  \/ \E w \in Workers : startOrder(w)
  \/ \E w \in Workers : executeOrderReturns(w)
  \/ \E w \in Workers : executeOrderThrows(w)
  \/ \E w \in Workers : completeOrder(w)
  \/ \E w \in Workers : storeReport(w)
  \/ \E w \in Workers : failOrder(w)

SpecTick == Init /\ [][NextTick]_vars

\* ------------------------------------------------------------ properties
executes(w, id) == proc[w].pc = "executing" /\ proc[w].order.id = id

\* the order the tick of worker w is working on
current(w) == Head(proc[w].due)

\* worker w has claimed order id and not yet written the attempt's outcome
claimed(w, id) ==
  /\ proc[w].pc \in {"start_lock", "start_apply", "executing",
                     "complete_lock", "complete_apply"}
  /\ proc[w].order.id = id

\* C1: no order is being executed by two workers at the same time.
C1_NoConcurrentExecution ==
  \A a \in Workers, b \in Workers, id \in DOMAIN orders :
    executes(a, id) /\ executes(b, id) => a = b

\* C2: when an acquireLease succeeds on an order that still carries the
\* lease written by an acquireLease of another holder, its now is at or
\* after that lease's lockedUntil: at most one succeeds while it is live.
C2_OneLeaseWhileLive ==
  [][\A w \in Workers :
       (/\ acquireLease(w)
        /\ proc'[w].pc = "acquireLease_read"
        /\ orders[current(w)].lockedBy \notin {none, w})
       => proc[w].now >= orders[current(w)].lockedUntil]_vars

\* both workers got a record for the same order from acquireLease
C2_Witness ==
  \E a \in Workers, b \in Workers, id \in DOMAIN orders :
    /\ a # b
    /\ claimed(a, id) /\ proc[a].order.lockedBy = a
    /\ proc[b].pc = "acquireLease_read" /\ current(b) = id
    /\ orders[id].lockedBy = b

\* C3: after maxAttempts consecutive failures the order is failed_terminal
\* with attemptCount = maxAttempts, and its attemptCount never goes beyond.
C3_TerminalAfterMaxAttempts ==
  \A id \in DOMAIN orders :
    /\ orders[id].attemptCount <= maxAttempts
    /\ (orders[id].attemptCount = maxAttempts
        /\ orders[id].status # "in_progress")
       => orders[id].status = "failed_terminal"

\* no worker's tick is working on the order
abandoned(id) == \A w \in Workers : proc[w].pc = "idle" \/ current(w) # id

\* C4: an order left in_progress by a worker that is gone is returned by
\* getDueOrders once its lease has expired.
C4_CrashedOrderIsDue ==
  \A id \in DOMAIN orders :
    (/\ orders[id].status = "in_progress"
     /\ abandoned(id)
     /\ orders[id].lockedUntil # undefined
     /\ orders[id].lockedUntil <= clock)
    => id \in Range(getDueOrders(orders, clock))

\* C5: acquireLease by B on a not completed order that carries A's
\* unreleased lease fails when now < lockedUntil and makes B the holder
\* when now >= lockedUntil.
C5_ExpiredLeaseReclaim ==
  [][\A w \in Workers :
       (/\ acquireLease(w)
        /\ orders[current(w)].lockedBy \notin {none, w}
        /\ orders[current(w)].lockedUntil # undefined
        /\ orders[current(w)].status # "completed")
       => IF proc[w].now < orders[current(w)].lockedUntil
          THEN /\ orders' = orders
               /\ proc'[w].pc # "acquireLease_read"
          ELSE /\ proc'[w].pc = "acquireLease_read"
               /\ orders'[current(w)].lockedBy = w
               /\ orders'[current(w)].lockedUntil = proc[w].now + leaseMs
               /\ orders'[current(w)].status = "in_progress"]_vars

\* B holds the lease of an order that A leased and never released
C5_Witness ==
  \E a \in Workers, b \in Workers, id \in DOMAIN orders :
    /\ a # b
    /\ proc[a].pc = "executing" /\ proc[a].order.id = id
    /\ proc[a].order.lockedBy = a
    /\ orders[id].lockedBy = b
    /\ orders[id].lockedUntil = proc[b].now + leaseMs
    /\ proc[b].now >= proc[a].order.lockedUntil

\* C6: the failure of attempt n sets nextAttemptAt - now to
\* min(retryBase * 2^(n-1), retryMax); the deltas of successive attempts do
\* not decrease and stay at retryMax once they reached it.
C6_BackoffDelta ==
  [][\A w \in Workers :
       failOrder(w) =>
         LET specBackoff(k) ==
               IF retryBaseMs * 2 ^ (k - 1) <= retryMaxMs
               THEN retryBaseMs * 2 ^ (k - 1) ELSE retryMaxMs
             failed == orders'[proc[w].order.id]
             n == failed.attemptCount
             delta == failed.nextAttemptAt - proc[w].catchNow
         IN /\ delta = specBackoff(n)
            /\ n > 1 => /\ delta >= specBackoff(n - 1)
                        /\ specBackoff(n - 1) = retryMaxMs
                           => delta = retryMaxMs]_vars

\* a failure after the cap was reached has been written
C6_Witness ==
  \E id \in DOMAIN orders :
    /\ orders[id].status = "failed"
    /\ orders[id].attemptCount = 7
    /\ orders[id].nextAttemptAt = clock + retryMaxMs

\* C7: the start of a claimed attempt raises the stored attemptCount by
\* exactly 1, the write of its outcome keeps it, and getDueOrders and
\* acquireLease leave every attemptCount unchanged.
C7_AttemptCountPerCycle ==
  [][\A w \in Workers :
       /\ startOrder(w) =>
            orders'[proc[w].order.id].attemptCount =
              orders[proc[w].order.id].attemptCount + 1
       /\ (completeOrder(w) \/ failOrder(w)) =>
            orders'[proc[w].order.id].attemptCount =
              orders[proc[w].order.id].attemptCount
       /\ (tick(w) \/ acquireLease(w)) =>
            \A id \in DOMAIN orders :
              orders'[id].attemptCount = orders[id].attemptCount]_vars

\* C8: the stored attemptCount of an order never decreases.
C8_AttemptCountMonotonic ==
  [][\A id \in DOMAIN orders :
       orders'[id].attemptCount >= orders[id].attemptCount]_vars

\* C9: a completed order is not returned by getDueOrders, acquireLease on
\* it returns null, and the executor is not invoked for it.
C9_CompletedNeverReclaimed ==
  [][\A w \in Workers :
       /\ tick(w) =>
            \A id \in Range(proc'[w].due) : orders[id].status # "completed"
       /\ (acquireLease(w) /\ orders[current(w)].status = "completed") =>
            orders' = orders /\ proc'[w].pc # "acquireLease_read"
       /\ startOrder(w) =>
            orders'[proc[w].order.id].status # "completed"]_vars

\* C10: no action of an Order Processor changes the status of an order
\* whose stored status is completed.
C10_CompletedIsTerminal ==
  [][\A id \in DOMAIN orders :
       orders[id].status = "completed"
       => orders'[id].status = "completed"]_vars

\* C11: with processors that keep ticking, no crash, no store error and an
\* executor that succeeds after finitely many failures, every submitted
\* order eventually has status completed, with no human override.
C11_EventuallyCompleted ==
  \A id \in Range(OrderIds) :
    (id \in DOMAIN orders)
      ~> (id \in DOMAIN orders /\ orders[id].status = "completed")

\* an order is completed by its second attempt, after a failure
C11_Witness ==
  \E id \in DOMAIN orders :
    /\ orders[id].status = "completed"
    /\ orders[id].attemptCount = 2
    /\ id \in DOMAIN reports

\* the calls of op that returned, made with no human decision
automated(op) ==
  {c \in Range(engine.calls) :
     c.op = op /\ ~ c.threw /\ c.request.humanDecision = absent}

\* C12: a human decision passed to processApproval is the resulting
\* decision, for every result, policy and autoApproveLowRisk setting.
C12_HumanOverride ==
  \A c \in Range(engine.calls) :
    (c.op = "processApproval" /\ ~ c.threw
     /\ c.request.humanDecision # absent)
    => c.decision = c.request.humanDecision

\* a human rejected a result that the engine alone approves
C12_Witness ==
  \E c \in Range(engine.calls) :
    /\ c.op = "processApproval" /\ ~ c.threw
    /\ c.request.humanDecision = "rejected" /\ c.decision = "rejected"
    /\ engine.autoApproveLowRisk
    /\ c.qualityEvaluation.meetsCriteria
    /\ c.riskAssessment.overallRisk = "low"

C14_MediumRiskApproved ==
  \A c \in automated("processApproval") :
    (c.qualityEvaluation.meetsCriteria
     /\ c.riskAssessment.overallRisk = "medium")
    => c.decision = "approved"

\* C15: with no human decision, the decision is requires_improvement when
\* the quality criteria are not met, and when they are met but the overall
\* risk is high or critical.
C15_RequiresImprovement ==
  \A c \in automated("processApproval") :
    /\ ~ c.qualityEvaluation.meetsCriteria
       => c.decision = "requires_improvement"
    /\ (c.qualityEvaluation.meetsCriteria
        /\ c.riskAssessment.overallRisk \in {"high", "critical"})
       => c.decision = "requires_improvement"

\* criteria not met at low risk with auto-approval of low risk switched on
C15_Witness ==
  \E c \in automated("processApproval") :
    /\ ~ c.qualityEvaluation.meetsCriteria
    /\ c.riskAssessment.overallRisk = "low"
    /\ engine.autoApproveLowRisk
    /\ c.decision = "requires_improvement"

\* C16: with no human decision, quality criteria met and overall risk low
\* give approved for either autoApproveLowRisk; output {result: ok} with
\* policy {minScore 70, requiredFields [result]}, no risk checks and no
\* error logs scores 100 and is approved.
C16_LowRiskApproved ==
  \A c \in automated("processApproval") :
    /\ (c.qualityEvaluation.meetsCriteria
        /\ c.riskAssessment.overallRisk = "low")
       => c.decision = "approved"
    /\ (/\ c.request.report.output = OutOk
        /\ c.request.report.errorLogs = 0
        /\ c.request.qualityCriteria =
             [minScore |-> 70, requiredFields |-> <<"result">>,
              formatRequirements |-> leftOut,
              contentRequirements |-> leftOut]
        /\ c.request.riskChecks = <<>>)
       => c.qualityEvaluation.score = 100 /\ c.decision = "approved"

\* the scenario was reviewed with auto-approval of low risk switched off
C16_Witness ==
  \E c \in automated("processApproval") :
    /\ c.request.report.output = OutOk
    /\ c.request.report.errorLogs = 0
    /\ c.request.qualityCriteria.minScore = 70
    /\ c.request.qualityCriteria.requiredFields = <<"result">>
    /\ c.request.riskChecks = <<>>
    /\ ~ engine.autoApproveLowRisk
    /\ c.decision = "approved"

\* C17: evaluateQuality returns score = clamp(100 - 10 * missing required
\* fields - 5 * unmet format requirements - 5 * absent content requirements
\* - 15 * error log lines, 0, 100) and meetsCriteria = (score >= minScore);
\* output {} with minScore 90 and three required fields gives score <= 70,
\* meetsCriteria false and the decision requires_improvement.
C17_QualityScore ==
  \A c \in Range(engine.calls) :
    (c.op \in {"evaluateQuality", "processApproval"} /\ ~ c.threw) =>
      LET output == c.request.report.output
          criteria == c.request.qualityCriteria
          keys == {p.key : p \in output.value}
          missing == {i \in 1..Len(criteria.requiredFields) :
                        criteria.requiredFields[i] \notin keys}
          unmet == {i \in 1..Len(criteria.formatRequirements.entries) :
                      LET r == criteria.formatRequirements.entries[i] IN
                        \A p \in output.value :
                          p.key = r.key => p.type # r.requirement}
          notFound == {i \in 1..Len(criteria.contentRequirements.entries) :
                         toLowerCase(criteria.contentRequirements.entries[i])
                           \notin stringify(output)}
          raw == 100 - 10 * Cardinality(missing) - 5 * Cardinality(unmet)
                 - 5 * Cardinality(notFound)
                 - 15 * c.request.report.errorLogs
          score == IF raw < 0 THEN 0 ELSE IF raw > 100 THEN 100 ELSE raw
      IN /\ c.qualityEvaluation.score = score
         /\ c.qualityEvaluation.score \in 0..100
         /\ c.qualityEvaluation.meetsCriteria
              = (c.qualityEvaluation.score >= criteria.minScore)
         /\ (/\ output = OutEmpty
             /\ criteria.minScore = 90
             /\ criteria.requiredFields = <<"a", "b", "c">>)
            => /\ c.qualityEvaluation.score <= 70
               /\ ~ c.qualityEvaluation.meetsCriteria
               /\ (c.op = "processApproval"
                   /\ c.request.humanDecision = absent)
                  => c.decision = "requires_improvement"

\* C18: overallRisk is the maximum severity over the findings (low when
\* there are none), and requiresHumanReview holds exactly when overallRisk
\* is high or critical or some finding is critical.
C18_OverallRisk ==
  \A c \in Range(engine.calls) :
    (c.op \in {"assessRisk", "processApproval"} /\ ~ c.threw) =>
      LET rank(severity) ==
            CASE severity = "low" -> 0 [] severity = "medium" -> 1
              [] severity = "high" -> 2 [] severity = "critical" -> 3
          found == {c.riskAssessment.riskFactors[i].severity :
                      i \in 1..Len(c.riskAssessment.riskFactors)}
          overallRisk == c.riskAssessment.overallRisk
      IN /\ found = {} => overallRisk = "low"
         /\ found # {} =>
              /\ overallRisk \in found
              /\ \A severity \in found : rank(severity) <= rank(overallRisk)
         /\ c.riskAssessment.requiresHumanReview
              = (overallRisk \in {"high", "critical"} \/ "critical" \in found)

\* an assessment with a finding of high severity
C18_Witness ==
  \E c \in Range(engine.calls) :
    /\ c.op = "assessRisk" /\ ~ c.threw
    /\ Len(c.riskAssessment.riskFactors) = 1
    /\ c.riskAssessment.riskFactors[1].severity = "high"
    /\ c.riskAssessment.overallRisk = "high"
    /\ c.riskAssessment.requiresHumanReview

\* C19: getDueOrders(now) returns exactly the stored orders that are
\* neither completed nor in_progress, whose nextAttemptAt (0 when absent)
\* is <= now and whose lease is absent or has lockedUntil <= now, and it
\* changes nothing in the store.
C19_DueOrders ==
  [][LET due == {id \in DOMAIN orders :
                   /\ orders[id].status \notin {"completed", "in_progress"}
                   /\ \/ orders[id].nextAttemptAt = undefined
                      \/ orders[id].nextAttemptAt <= clock
                   /\ \/ orders[id].lockedUntil = undefined
                      \/ orders[id].lockedUntil <= clock}
     IN /\ Range(getDueOrders(orders, clock)) = due
        /\ \A w \in Workers :
             tick(w) => /\ Range(proc'[w].due) = due
                        /\ orders' = orders
                        /\ reports' = reports]_vars

\* a tick got one order back while the store holds another one that is
\* in_progress under an expired lease
C19_Witness ==
  \E w \in Workers, id \in DOMAIN orders, other \in DOMAIN orders :
    /\ proc[w].pc = "acquireLease_lock"
    /\ proc[w].now = clock
    /\ proc[w].due = <<id>>
    /\ id # other
    /\ orders[id].status = "pending"
    /\ orders[other].status = "in_progress"
    /\ orders[other].lockedUntil <= clock

C21_AcquireLeaseFrame ==
  [][\A w \in Workers :
       (acquireLease(w) /\ proc'[w].pc = "acquireLease_read") =>
         /\ orders' =
              [orders EXCEPT ![current(w)] =
                 [@ EXCEPT !.status = "in_progress", !.lockedBy = w,
                           !.lockedUntil = proc[w].now + leaseMs,
                           !.updatedAt = clock]]
         /\ reports' = reports]_vars

\* a lease was acquired on an order that failed before, while the store
\* holds the result of another order
C21_Witness ==
  \E w \in Workers, other \in DOMAIN reports :
    /\ proc[w].pc = "acquireLease_read"
    /\ current(w) # other
    /\ orders[current(w)].lockedBy = w
    /\ orders[current(w)].status = "in_progress"
    /\ orders[current(w)].attemptCount = 1
    /\ orders[current(w)].lastError = ExecutorError
    /\ orders[current(w)].nextAttemptAt # undefined

\* C22: releaseLease(id) unsets lockedBy and lockedUntil of that order and
\* leaves its status, attemptCount, lastError and nextAttemptAt, every
\* other order and every result unchanged; for a missing id nothing changes.
C22_ReleaseLeaseFrame ==
  [][\A c \in Clients :
       (writeData(c) /\ client[c].op.name = "releaseLease") =>
         LET id == client[c].op.id IN
           /\ IF id \in DOMAIN orders
              THEN orders' =
                     [orders EXCEPT ![id] =
                        [@ EXCEPT !.lockedBy = none,
                                  !.lockedUntil = undefined,
                                  !.updatedAt = orders'[id].updatedAt]]
              ELSE orders' = orders
           /\ reports' = reports]_vars

\* the lease of a started order was released while the store holds
\* another order and its result
C22_Witness ==
  \E c \in Clients, other \in DOMAIN reports :
    /\ client[c].pc = "releaseFileLock"
    /\ client[c].op.name = "releaseLease"
    /\ client[c].op.id \in DOMAIN orders
    /\ client[c].op.id # other
    /\ client[c].data.orders[client[c].op.id].lockedBy # none
    /\ orders[client[c].op.id].lockedBy = none
    /\ orders[client[c].op.id].lockedUntil = undefined
    /\ orders[client[c].op.id].status = "in_progress"
    /\ orders[client[c].op.id].attemptCount = 1

\* the processes between the creation and the removal of the lock file
inWithLock ==
  {c \in Clients :
     client[c].pc \in {"readData", "writeData", "releaseFileLock"}}

\* C23: of the mutating operations issued by several processes at most one
\* is between lock acquisition and lock release at any time, and each
\* operation's write is its change applied to the full state left by the
\* operation completed before it, so no completed mutation is lost.
C23_SerializedMutations ==
  /\ [](Cardinality(inWithLock) <= 1)
  /\ [][\A c \in Clients :
          writeData(c) =>
            [orders |-> orders', reports |-> reports'] =
              fn(client[c].op, [orders |-> orders, reports |-> reports],
                 clock)]_vars

\* a process has written its change and holds the lock file while another
\* process waits for it
C23_Witness ==
  \E a \in Clients, b \in Clients :
    /\ client[a].pc = "acquireFileLock"
    /\ client[b].pc = "releaseFileLock"
    /\ lockHolder = b
    /\ client[b].data # [orders |-> orders, reports |-> reports]

\* C24: a store lock timeout raised during a tick is never written into
\* an order's lastError and never makes an order failed with a backoff.
C24_LockTimeoutNotSurfaced ==
  \A id \in DOMAIN orders : orders[id].lastError # LockTimeoutError

\* worker w is inside processOrder for the order it leased
processing(w) ==
  proc[w].pc \in {"start_lock", "start_apply", "executing", "complete_lock",
                  "complete_apply", "report_lock", "report_apply",
                  "fail_lock", "fail_apply"}

\* C25: within one tick, an exception raised while one due order is
\* processed (by the executor or by a store write made for that order)
\* never keeps the tick from going on to the remaining due orders: every
\* step of a running process stays with the order or moves to the next.
C25_FailureIsolated ==
  [][\A w \in Workers :
       (/\ processing(w)
        /\ Tail(proc[w].due) # <<>>
        /\ proc'[w] # proc[w]
        /\ ~ crash(w))
       => \/ processing(w)' /\ proc'[w].due = proc[w].due
          \/ /\ proc'[w].pc = "acquireLease_lock"
             /\ proc'[w].due = Tail(proc[w].due)]_vars

\* C26: processApproval and handleFeedbackLoop never modify or remove an
\* approval record: every record stored before a call is retrieved by its
\* id unchanged after it, and a call that returns adds exactly one record.
C26_RecordsKept ==
  [][(ProcessApproval \/ HandleFeedbackLoop) =>
       /\ \A id \in DOMAIN engine.approvals :
            /\ id \in DOMAIN engine.approvals'
            /\ engine.approvals'[id] = engine.approvals[id]
       /\ Cardinality(DOMAIN engine.approvals' \ DOMAIN engine.approvals)
            = IF engine.calls'[Len(engine.calls')].threw THEN 0 ELSE 1]_vars

\* a feedback loop approved a report whose first review, still stored,
\* required improvement
C26_Witness ==
  /\ Len(engine.approvals) = 2
  /\ engine.approvals[1].reportId = engine.approvals[2].reportId
  /\ engine.approvals[1].decision = "requires_improvement"
  /\ engine.approvals[2].decision = "approved"
  /\ engine.calls[2].op = "handleFeedbackLoop"

\* C27: every approval record whose decision is not approved, automated
\* or human, carries a feedback string and an improvementRequirements
\* array.
C27_FeedbackOnNonApproved ==
  \A id \in DOMAIN engine.approvals :
    engine.approvals[id].decision # "approved"
    => /\ engine.approvals[id].feedback # <<>>
       /\ engine.approvals[id].improvementRequirements # leftOut

\* C28: a human-override request (reportId, decision) changes only the
\* order under whose id the result with that reportId is stored: its status
\* becomes completed when the decision is approved and pending with
\* nextAttemptAt = now otherwise, and the stored result's approved flag
\* becomes (decision = approved); a request with an unknown reportId or an
\* invalid decision ends with no order and no result changed.
C28_OverrideTarget ==
  [][/\ approvalUpdateOrder =>
          /\ reports[http.orderId].report.id = http.reportId
          /\ DOMAIN orders' = DOMAIN orders
          /\ \A other \in DOMAIN orders \ {http.orderId} :
               orders'[other] = orders[other]
          /\ orders'[http.orderId].status =
               IF http.decision = "approved" THEN "completed" ELSE "pending"
          /\ http.decision # "approved"
               => orders'[http.orderId].nextAttemptAt = clock
          /\ reports' = reports
     /\ approvalSetReport =>
          /\ reports[http.orderId].report.id = http.reportId
          /\ DOMAIN reports' = DOMAIN reports
          /\ \A other \in DOMAIN reports \ {http.orderId} :
               reports'[other] = reports[other]
          /\ reports'[http.orderId].approved = (http.decision = "approved")
          /\ orders' = orders
     /\ (approvalRequest \/ approvalFindReport \/ approvalGetOrder) =>
          orders' = orders /\ reports' = reports
     /\ (/\ approvalFindReport
         /\ \/ http.decision \notin Decisions
            \/ \A id \in DOMAIN reports :
                 reports[id].report.id # http.reportId)
        => http' = IdleHttp /\ engine' = engine]_vars

\* the owner rejected the result of one order: that order is pending again
\* and its result not approved, the other order and its result are as the
\* Order Processor left them
C28_Witness ==
  \E id \in DOMAIN reports, other \in DOMAIN reports :
    /\ http.pc = "idle"
    /\ id = OrderIds[2] /\ other = OrderIds[1]
    /\ reports[id].approvalRecordId # undefined
    /\ ~ reports[id].approved
    /\ orders[id].status = "pending"
    /\ orders[id].nextAttemptAt = clock
    /\ reports[other].approvalRecordId = undefined
    /\ reports[other].approved
    /\ orders[other].status = "completed"

\* the edges of the order state machine of the Order Processor
StatusEdges ==
  {<<"pending", "in_progress">>, <<"in_progress", "completed">>,
   <<"in_progress", "failed">>, <<"in_progress", "failed_terminal">>,
   <<"failed", "pending">>}

\* C29: every change of an order's status made by the pipeline is an edge
\* of pending -> in_progress -> {completed | failed -> pending -> ... |
\* failed_terminal}: in_progress is entered only from pending, the three
\* outcomes only from in_progress, and a failed order returns to pending
\* before it is claimed again.
C29_SequentialTransitions ==
  [][\A id \in DOMAIN orders :
       orders'[id].status # orders[id].status
         => <<orders[id].status, orders'[id].status>> \in StatusEdges]_vars

\* processOrder of worker w returns after its executor succeeded: by its
\* last store write of the success path, or by the write of its catch block
\* when a store write of the success path threw
returnsAfterSuccess(w) ==
  \/ storeReport(w)
  \/ failOrder(w) /\ proc[w].order.lastError = LockTimeoutError

\* C30: after the executor succeeds for a claimed order and processOrder
\* returns, the stored order is completed with lockedBy, lockedUntil,
\* nextAttemptAt and lastError unset, and a result (approved flag and
\* execution report) is stored under the order's id.
C30_CompletedAfterSuccess ==
  [][\A w \in Workers :
       returnsAfterSuccess(w) =>
         LET id == proc[w].order.id IN
           /\ orders'[id].status = "completed"
           /\ orders'[id].lockedBy = none
           /\ orders'[id].lockedUntil = undefined
           /\ orders'[id].nextAttemptAt = undefined
           /\ orders'[id].lastError = none
           /\ id \in DOMAIN reports'
           /\ reports'[id] = executionResult(proc[w].approved, id)]_vars

\* the order is among the due orders at time t
due(id, t) == \E i \in DOMAIN getDueOrders(orders, t) : getDueOrders(orders, t)[i] = id

\* C31: after a failed attempt the order is stored with status failed, the
\* failure message as lastError, no lease and nextAttemptAt = now + backoff;
\* no worker starts the executor for it before that nextAttemptAt; it is
\* due again once now >= nextAttemptAt.
C31_BackoffRespected ==
  /\ [][\A w \in Workers :
         /\ failOrder(w) =>
              LET id == proc[w].order.id IN
                /\ orders'[id].status = "failed"
                /\ orders'[id].lastError \in {ExecutorError, LockTimeoutError}
                /\ orders'[id].lockedBy = none
                /\ orders'[id].lockedUntil = undefined
                /\ orders'[id].nextAttemptAt =
                     proc[w].catchNow + backoffMs(orders'[id].attemptCount)
         /\ startOrder(w) =>
              LET id == proc[w].order.id IN
                orders[id].lastError # none
                  => orders[id].nextAttemptAt <= clock]_vars
  /\ [](\A id \in DOMAIN orders :
         (orders[id].status = "failed" /\ orders[id].nextAttemptAt <= clock)
           => due(id, clock))

\* a tick body of worker w is running
inTick(w) == proc[w].pc # "idle"

\* C32: per processor at most one tick body runs at a time: the guard is
\* set exactly while a tick body runs, a tick body begins only when none
\* runs, a timer callback run during a tick returns without touching the
\* store or the running tick and leaves nothing queued, and when a tick
\* ends, normally or by an exception, the guard is clear.
C32_SingleTick ==
  /\ [](\A w \in Workers : proc[w].isProcessing <=> inTick(w))
  /\ [][\A w \in Workers :
         /\ tickBegins(w) => ~ inTick(w)
         /\ tickSkipped(w) =>
              /\ inTick(w)
              /\ proc' = [proc EXCEPT ![w].timer = "armed"]
              /\ orders' = orders /\ reports' = reports
         /\ (inTick(w) /\ ~ inTick(w)') =>
              /\ ~ proc'[w].isProcessing
              /\ proc'[w].timer = proc[w].timer]_vars

\* a tick of one processor ended by a lock timeout before its startedOrder
\* was written and its timer has fired again; the timer of the other
\* processor has fired while its tick is running
C32_Witness ==
  \E a \in Workers, b \in Workers, id \in DOMAIN orders :
    /\ a # b
    /\ ~ inTick(a) /\ ~ proc[a].isProcessing /\ proc[a].timer = "expired"
    /\ orders[id].status = "in_progress" /\ orders[id].lockedBy = a
    /\ orders[id].attemptCount = 0
    /\ inTick(b) /\ proc[b].isProcessing /\ proc[b].timer = "expired"

\* C33: in every reachable state of the store, processor ticks and human
\* overrides interleaved, lockedBy and lockedUntil of an order are both set
\* or both unset, and they are set only while its status is in_progress.
C33_LeaseFields ==
  \A id \in DOMAIN orders :
    /\ orders[id].lockedBy = none <=> orders[id].lockedUntil = undefined
    /\ orders[id].lockedBy # none => orders[id].status = "in_progress"

\* worker w writes the record of the order it is processing
writesOrder(w) == startOrder(w) \/ completeOrder(w) \/ failOrder(w)

\* C34: every write a worker makes to an order's record while processing
\* it (attempt start, completed, failed) happens while the stored record
\* carries that worker's live lease: lockedBy is the worker and lockedUntil
\* is later than the time of the write.
C34_WritesUnderLease ==
  [][\A w \in Workers :
       writesOrder(w) =>
         LET id == proc[w].order.id IN
           /\ orders[id].lockedBy = w
           /\ orders[id].lockedUntil > clock]_vars

\* C35: in every reachable state, the states between the processor's store
\* writes included, an order stored as completed has a result stored under
\* its id.
C35_CompletedHasResult ==
  \A id \in DOMAIN orders :
    orders[id].status = "completed" => id \in DOMAIN reports

\* C36: a mutating store operation that fails with a lock timeout changes
\* neither orders nor results and leaves the lock file of the process that
\* holds it in place: the lock file exists exactly while its owner is in
\* its critical section, so it is free again once the owner has released.
C36_LockTimeoutHarmless ==
  /\ [](\A c \in Clients : c \in inWithLock <=> lockHolder = c)
  /\ [][\A c \in Clients :
         storeLockTimeout(c) =>
           /\ orders' = orders /\ reports' = reports
           /\ lockHolder' = lockHolder
           /\ lockHolder # c]_vars

\* an operation of one process has failed with the timeout while another
\* process, still holding the lock file, is about to write
C36_Witness ==
  \E a \in Clients, b \in Clients :
    /\ client[a].pc = "idle"
    /\ client[a].error = LockTimeoutError
    /\ client[b].pc = "writeData"
    /\ lockHolder = b

\* C37: a risk check yields a finding exactly when its detection fires and
\* the report's risk value (0.3 for an error log, 0.2 for a duration over
\* 300000 ms, 0.4 for a null output, 0.1 for an output over 1000000
\* characters, summed and capped at 1) is >= the check's threshold; the
\* finding is critical, high or medium when the value is >= 0.9, 0.7 or
\* 0.5, and low otherwise.  Values are in tenths.
C37_RiskFinding ==
  \A c \in Range(engine.calls) :
    (c.op \in {"assessRisk", "processApproval"} /\ ~ c.threw) =>
      LET report == c.request.report
          sum == (IF report.errorLogs >= 1 THEN 3 ELSE 0)
                 + (IF report.executionTimeMs > 300000 THEN 2 ELSE 0)
                 + (IF report.output.kind = "null" THEN 4 ELSE 0)
                 + (IF report.output.chars > 1000000 THEN 1 ELSE 0)
          value == IF sum > 10 THEN 10 ELSE sum
          severity == CASE value >= 9 -> "critical"
                        [] value >= 7 /\ value < 9 -> "high"
                        [] value >= 5 /\ value < 7 -> "medium"
                        [] OTHER -> "low"
          fires == SelectSeq(c.request.riskChecks, LAMBDA check :
                     detected(report, check) /\ value >= check.threshold)
          factors == c.riskAssessment.riskFactors
      IN /\ Len(factors) = Len(fires)
         /\ \A i \in 1..Len(fires) :
              /\ factors[i].type = fires[i].name
              /\ factors[i].severity = severity

\* a report with a null output, four error logs and a duration of 400 s
\* (risk value 0.9) assessed with the many_errors and timeout checks: both
\* detections fire, the first gives a finding of severity critical, the
\* second stays below its threshold of 1
C37_Witness ==
  \E c \in Range(engine.calls) :
    /\ c.op = "assessRisk" /\ ~ c.threw
    /\ c.request.report.output = OutNull
    /\ c.request.report.errorLogs = 4
    /\ c.request.report.executionTimeMs = 400000
    /\ Len(c.request.riskChecks) = 2
    /\ detected(c.request.report, c.request.riskChecks[2])
    /\ Len(c.riskAssessment.riskFactors) = 1
    /\ c.riskAssessment.riskFactors[1].type = "many_errors"
    /\ c.riskAssessment.riskFactors[1].severity = "critical"

\* C38: with no human decision processApproval never returns rejected: for
\* every result, quality policy, risk policy and autoApproveLowRisk setting
\* the automated decision is approved or requires_improvement, in the
\* returned decision and in the approval record it stores.
C38_NeverRejectsAutomatically ==
  /\ \A c \in automated("processApproval") :
       c.decision \in {"approved", "requires_improvement"}
  /\ \A i \in 1..Len(engine.approvals) :
       engine.approvals[i].decisionBy = "automated"
         => engine.approvals[i].decision # "rejected"

\* the worst result: criteria not met and a critical risk, decided
\* automatically as requires_improvement
C38_Witness ==
  \E c \in automated("processApproval") :
    /\ ~ c.qualityEvaluation.meetsCriteria
    /\ c.riskAssessment.overallRisk = "critical"
    /\ c.decision = "requires_improvement"
    /\ Len(engine.approvals) = 1
    /\ engine.approvals[1].decisionBy = "automated"

\* C39: an approval record has decisionBy = human only when its decision
\* came through the human-override boundary: every record produced while
\* the Order Processor executes an order through the autonomous order flow
\* has decisionBy = automated.
C39_FlowRecordsAutomated ==
  \A i \in 1..Len(engine.approvals) :
    engine.approvals[i].decisionBy = "automated"

\* C40: the record a successful acquireLease returns is the record that
\* call persisted: status in_progress, lockedBy the caller and lockedUntil
\* now + leaseMs, also when another writer runs beside the call.
C40_ReturnsPersistedLease ==
  [][\A w \in Workers :
       processOrder(w) =>
         /\ orders[current(w)].status = "in_progress"
         /\ orders[current(w)].lockedBy = w
         /\ orders[current(w)].lockedUntil = proc[w].now + leaseMs]_vars

====
